---- MODULE Spec2Model ----
(***************************************************************************)
(* Model of the OSRM distance scripts and of the supply/demand             *)
(* reconciliation scripts.                                                 *)
(*                                                                         *)
(*   1_calculate_distances.py   batch (table) resolution       prog "1"    *)
(*   a_calculate_distances.py   per-pair (route) resolution    prog "a"    *)
(*   2_process_results.py       calculer_besoins_et_offre      variant "2" *)
(*   b_process_results.py       calculer_besoins_et_offre      variant "b" *)
(*                                                                         *)
(* DataFrames with a RangeIndex are functions on 0 .. n-1, so that the     *)
(* source's 0-based indexing is kept.  Floats are exact rationals <<n, d>>; *)
(* d = 0 encodes the IEEE specials (0/0 = NaN, 1/0 = inf, -1/0 = -inf).    *)
(* Python's None is the empty tuple.                                       *)
(***************************************************************************)
EXTENDS Integers, Sequences, FiniteSets, TLC

VARIABLES
    \* --- reconciliation (2_process_results.py, b_process_results.py)
    variant,      \* which reconciliation script runs: "2" or "b" ("-" when none does)
    from_data,    \* producers: id -> [PL_Tan, PF_Tan]
    to_data,      \* consumers: id -> [CL_Tan, CF_Tan, cptL, cptF]
    routes,       \* ledger rows 0 .. n-1: [id_from, id_to, distance_km, duration_min,
                  \*                         km_parcourus]
    i,            \* loop index of calculer_besoins_et_offre
    rpc,          \* "idle" | "loop" | "raised" | "returned"
    from_data_0,  \* history: from_data as loaded, before the first triple
    to_data_0,    \* history: to_data as loaded, before the first triple
    \* --- distance resolution (1_calculate_distances.py, a_calculate_distances.py)
    prog,         \* which distance script runs: "1" or "a" ("-" when none does)
    leg,          \* backend: record -> "ok" | "zero" | "null", what it knows of the leg
    table_ok,     \* backend: table request -> whether it is served
    cells,        \* backend: how a served table gives the cells of an origin it cannot
                  \*          route from: "null" (as nulls) or "missing" (not at all)
    route,        \* route DataFrame: record -> [distance_km, duration_min]
    dpc,          \* main thread: "idle" | "cmp_batch" | "cmp_submit" | "cmp_collect"
                  \*              | "cmp_done" | "submit" | "collect" | "merge" | "done"
    futures,      \* task -> "new" | "queued" | "running" | "done" | "yielded"
    fresult,      \* task -> what its future holds once done
    results,      \* the results list of process_in_parallel, in completion order
    m,            \* how many results the merge loop has written
    num_failures, \* None until counted
    batch_results,    \* compare_batch_vs_parallel: None until computed
    parallel_results, \* compare_batch_vs_parallel: None until computed
    saved,        \* routes_avec_osrm.csv: the tables written by to_csv, one per run
    rerun         \* whether the script has been started a second time

rvars == <<variant, from_data, to_data, routes, i, rpc, from_data_0, to_data_0>>

dvars == <<prog, leg, table_ok, cells, route, dpc, futures, fresult, results, m, num_failures,
           batch_results, parallel_results, saved, rerun>>

vars == <<rvars, dvars>>

----------------------------------------------------------------------------
(* Numbers *)

None == <<>>

NaN == <<0, 0>>

Abs(x) == IF x < 0 THEN -x ELSE x

RECURSIVE GCD(_, _)
GCD(a, b) == IF b = 0 THEN a ELSE GCD(b, a % b)

Sign(x) == IF x > 0 THEN 1 ELSE IF x < 0 THEN -1 ELSE 0

\* a / b on numpy scalars: a true division that never raises
Div(a, b) ==
    IF b = 0 THEN <<Sign(a), 0>>
    ELSE LET g == GCD(Abs(a), Abs(b)) IN <<Sign(b) * (a \div g), Abs(b) \div g>>

\* 1 - q
OneMinus(q) ==
    IF q[2] = 0 THEN <<-q[1], 0>> ELSE Div(q[2] - q[1], q[2])

\* q * k, k > 0
Times(q, k) ==
    IF q[2] = 0 THEN q ELSE Div(q[1] * k, q[2])

\* a number of a JSON response
Num(n) == <<n, 1>>

\* q / k, k > 0
Over(q, k) ==
    IF q[2] = 0 THEN q ELSE Div(q[1], q[2] * k)

----------------------------------------------------------------------------
(* Bounds and input data of the reconciliation pass *)

MaxRoutes == 2

FromIds == {"1", "P1"}

ToIds == {"C1", "C2"}

\* ids a route row may carry; "2" and "C9" are in no record set
RouteFromIds == {"1", "P1", "2"}

RouteToIds == {"C1", "C2", "C9"}

\* (PL_Tan, PF_Tan) of a producer as loaded
StockProfiles == {<<10, 4>>, <<0, 10>>, <<4, 10>>}

\* (CL_Tan, CF_Tan) of a consumer as loaded
DemandProfiles == {<<7, 10>>, <<0, 7>>, <<10, 4>>, <<4, 0>>}

\* routes_avec_osrm.csv: the resolved distance of a leg, None when resolution failed
RouteDistance(f, t) ==
    IF f = "P1" /\ t = "C2" THEN None
    ELSE Div(500 * ((IF f = "1" THEN 1 ELSE IF f = "P1" THEN 2 ELSE 3)
                    + (IF t = "C1" THEN 2 ELSE IF t = "C2" THEN 4 ELSE 6)), 1000)

\* routes_avec_osrm.csv: the resolved duration of a leg, None with the distance
RouteDuration(f, t) ==
    IF RouteDistance(f, t) = None THEN None ELSE Times(RouteDistance(f, t), 2)

RouteRows ==
    { [id_from |-> f, id_to |-> t, distance_km |-> RouteDistance(f, t),
       duration_min |-> RouteDuration(f, t), km_parcourus |-> NaN] :
        f \in RouteFromIds, t \in RouteToIds }

----------------------------------------------------------------------------
(* calculer_besoins_et_offre *)

\* from_data.loc[from_data[key] == k, col].values[0] raises IndexError on an empty mask
HasFrom(k) == k \in DOMAIN from_data

HasTo(k) == k \in DOMAIN to_data

\* the key the producer's PL_Tan is read with
LegReadKey(id_from) == IF variant = "b" THEN "P" \o id_from ELSE id_from

\* the key the producer's PF_Tan is read with
FruReadKey(id_from) == id_from

\* the reads of one iteration all succeed
ReadsOk(id_from, id_to) ==
    /\ HasFrom(LegReadKey(id_from))
    /\ HasTo(id_to)
    /\ HasFrom(FruReadKey(id_from))

NewStock_Unclamped(diff) == diff

\* the producer's stock after the distribution
NewStock(diff) == IF diff > 0 THEN diff ELSE 0

NewDemand_NoAbs(diff) == IF diff > 0 THEN 0 ELSE diff

\* the consumer's demand after the distribution
NewDemand(diff) == IF diff > 0 THEN 0 ELSE Abs(diff)

Completion_OfRemaining(reste, demande) == Times(Div(reste, demande), 100)

\* (1 - reste / demande) * 100, demande the demand read at the start of the iteration
Completion(reste, demande) == Times(OneMinus(Div(reste, demande)), 100)

KmParcourus_Zero(row) == Div(0, 1)

\* the value written to km_parcourus: the row's osrm_distance_km (2_process_results.py),
\* distance_km (b_process_results.py), the distance the resolution wrote
KmParcourus(row) == row.distance_km

\* .loc[mask, col] = v writes the rows the mask selects: none when the key is absent
SetFrom(fd, k, col, v) ==
    IF k \in DOMAIN fd THEN [fd EXCEPT ![k][col] = v] ELSE fd

\* len(routes)
LenRoutes == Cardinality(DOMAIN routes)

InitRecon ==
    /\ variant \in {"2", "b"}
    /\ from_data \in [FromIds -> {[PL_Tan |-> p[1], PF_Tan |-> p[2]] : p \in StockProfiles}]
    /\ to_data \in [ToIds -> {[CL_Tan |-> d[1], CF_Tan |-> d[2], cptL |-> NaN, cptF |-> NaN] :
                                d \in DemandProfiles}]
    /\ routes \in [0 .. MaxRoutes - 1 -> RouteRows]
    /\ i = 0
    /\ rpc = "loop"
    /\ from_data_0 = from_data
    /\ to_data_0 = to_data

\* one iteration of the for loop whose reads succeed
Iterate ==
    /\ rpc = "loop"
    /\ i < LenRoutes
    /\ LET id_from == routes[i].id_from
           id_to == routes[i].id_to
       IN /\ ReadsOk(id_from, id_to)
          /\ LET offre_leg == from_data[LegReadKey(id_from)].PL_Tan
                 demande_leg == to_data[id_to].CL_Tan
                 offre_fru == from_data[FruReadKey(id_from)].PF_Tan
                 demande_fru == to_data[id_to].CF_Tan
                 diff_leg == offre_leg - demande_leg
                 diff_fru == offre_fru - demande_fru
                 fd1 == SetFrom(from_data, id_from, "PL_Tan", NewStock(diff_leg))
                 fd2 == SetFrom(fd1, id_from, "PF_Tan", NewStock(diff_fru))
                 CL == NewDemand(diff_leg)
                 CF == NewDemand(diff_fru)
             IN /\ from_data' = fd2
                /\ to_data' = [to_data EXCEPT ![id_to] =
                                 [CL_Tan |-> CL, CF_Tan |-> CF,
                                  cptL |-> Completion(CL, demande_leg),
                                  cptF |-> Completion(CF, demande_fru)]]
                /\ routes' = [routes EXCEPT ![i].km_parcourus = KmParcourus(routes[i])]
    /\ i' = i + 1
    /\ UNCHANGED <<variant, rpc, from_data_0, to_data_0, dvars>>

RaiseIndexError_Skip ==
    /\ rpc = "loop"
    /\ i < LenRoutes
    /\ ~ReadsOk(routes[i].id_from, routes[i].id_to)
    /\ i' = i + 1
    /\ UNCHANGED <<variant, from_data, to_data, routes, rpc, from_data_0, to_data_0, dvars>>

\* an iteration one of whose reads selects no row: .values[0] raises IndexError,
\* nothing catches it and the pass ends there
RaiseIndexError ==
    /\ rpc = "loop"
    /\ i < LenRoutes
    /\ ~ReadsOk(routes[i].id_from, routes[i].id_to)
    /\ rpc' = "raised"
    /\ UNCHANGED <<variant, from_data, to_data, routes, i, from_data_0, to_data_0, dvars>>

\* return from_data, to_data, routes
Return ==
    /\ rpc = "loop"
    /\ i = LenRoutes
    /\ rpc' = "returned"
    /\ UNCHANGED <<variant, from_data, to_data, routes, i, from_data_0, to_data_0, dvars>>

NextRecon == Iterate \/ RaiseIndexError \/ Return

\* no distance script runs
DistIdle ==
    /\ prog = "-" /\ leg = <<>> /\ table_ok = <<>> /\ cells = "-" /\ route = <<>>
    /\ dpc = "idle"
    /\ futures = <<>> /\ fresult = <<>> /\ results = <<>> /\ m = 0
    /\ num_failures = None /\ batch_results = None /\ parallel_results = None
    /\ saved = <<>> /\ rerun = FALSE

ReconInit == InitRecon /\ DistIdle

SpecRecon == ReconInit /\ [][NextRecon]_vars

----------------------------------------------------------------------------
(* Distance resolution: bounds and the routing backend *)

\* len(route)
MaxRecords == 3

\* batch_size of process_in_parallel in 1_calculate_distances.py (50 there)
BatchSize == 2

\* max_workers of the ThreadPoolExecutor (10 and 30 in the scripts)
MaxWorkers == 2

\* the n of route[:n] in compare_batch_vs_parallel (10 there)
ExtractLen == 2

Records == 0 .. MaxRecords - 1

Min(a, b) == IF a < b THEN a ELSE b

\* the coordinate at position r of the table request "src_str;dst_str" of a batch of
\* n records starting at record start: the n origins, then the n destinations.
\* The origin of record x is point 2x, its destination point 2x + 1.
Point(start, n, r) ==
    IF r < n THEN 2 * (start + r) ELSE 2 * (start + r - n) + 1

\* the backend's distance in meters from point pa to point pb: 0 from a point to
\* itself, null from an origin it cannot route from, the leg's own distance from
\* an origin to its destination, and a value of no leg for any other two points
Meters(pa, pb) ==
    IF pa = pb THEN Num(0)
    ELSE IF pa % 2 = 0 /\ leg[pa \div 2] = "null" THEN None
    ELSE IF pa % 2 = 0 /\ pb = pa + 1
         THEN (IF leg[pa \div 2] = "zero" THEN Num(0) ELSE Num(1500 + 1000 * (pa \div 2)))
    ELSE Num(100000 + 1000 * pa + 10 * pb)

\* the backend's duration in seconds from point pa to point pb
Seconds(pa, pb) ==
    IF pa = pb THEN Num(0)
    ELSE IF pa % 2 = 0 /\ leg[pa \div 2] = "null" THEN None
    ELSE IF pa % 2 = 0 /\ pb = pa + 1
         THEN (IF leg[pa \div 2] = "zero" THEN Num(0) ELSE Num(90 + 60 * (pa \div 2)))
    ELSE Num(6000 + 60 * pa + 6 * pb)

\* data['distances'] of the table endpoint: all coordinates are sources and destinations
Distances(start, n) ==
    [r \in 0 .. 2 * n - 1 |->
        [c \in 0 .. 2 * n - 1 |-> Meters(Point(start, n, r), Point(start, n, c))]]

\* data['durations'] of the table endpoint
Durations(start, n) ==
    [r \in 0 .. 2 * n - 1 |->
        [c \in 0 .. 2 * n - 1 |-> Seconds(Point(start, n, r), Point(start, n, c))]]

\* what requests.get can answer to a table request: the served response, or one of
\* the failures (transport exception, non-200 status, 200 without the two fields)
TableResponses(served) ==
    IF served
    THEN {[raises |-> FALSE, status_code |-> 200, fields |-> TRUE, cells |-> cells]}
    ELSE {[raises |-> TRUE, status_code |-> 0, fields |-> FALSE, cells |-> "null"],
          [raises |-> FALSE, status_code |-> 500, fields |-> FALSE, cells |-> "null"],
          [raises |-> FALSE, status_code |-> 200, fields |-> FALSE, cells |-> "null"]}

\* a matrix of the table endpoint as the response carries it: with "missing"
\* the row of an origin the backend cannot route from is empty
Rendered(matrix, start, n, how) ==
    [r \in 0 .. 2 * n - 1 |->
        IF how = "missing" /\ r < n /\ leg[start + r] = "null" THEN <<>> ELSE matrix[r]]

\* row[c] raises IndexError
NoCell(row, c) == c \notin DOMAIN row

\* what requests.get can answer to the route request of record x: the route, or one
\* of the failures (transport exception, non-200 status such as NoRoute, 200
\* without 'routes', 200 with an empty 'routes')
RouteResponses(x) ==
    IF leg[x] # "null"
    THEN {[raises |-> FALSE, status_code |-> 200, routes |-> "one"]}
    ELSE {[raises |-> TRUE, status_code |-> 0, routes |-> "absent"],
          [raises |-> FALSE, status_code |-> 400, routes |-> "absent"],
          [raises |-> FALSE, status_code |-> 200, routes |-> "absent"],
          [raises |-> FALSE, status_code |-> 200, routes |-> "empty"]}

\* Python truthiness of a number or None
Truthy(v) == v # None /\ v[1] # 0

----------------------------------------------------------------------------
(* 1_calculate_distances.py *)

\* range(0, len, batch_size)
RangeStep(len, batch_size) == {k \in 0 .. len - 1 : k % batch_size = 0}

\* the positions of route.iloc[k:k + batch_size] in a route of len rows
IlocSlice(k, len, batch_size) == {x \in 0 .. len - 1 : k <= x /\ x < k + batch_size}

BatchStarts_EveryRecord == Records

\* range(0, len(route), batch_size)
BatchStarts == {k \in Records : k % BatchSize = 0}

\* len(route.iloc[k:k + batch_size])
BatchLen(k) == Min(k + BatchSize, MaxRecords) - k

\* osrm_table: (distances, durations), or (None, None)
osrm_table(start, n, resp) ==
    IF resp.raises THEN <<None, None>>
    ELSE IF resp.status_code = 200
         THEN (IF resp.fields
               THEN <<Rendered(Distances(start, n), start, n, resp.cells),
                      Rendered(Durations(start, n), start, n, resp.cells)>>
               ELSE <<None, None>>)
         ELSE <<None, None>>

ResultIndex_InBatch(start, j) == j

ResultIndex_BatchStart(start, j) == start

\* batch.index[j]
ResultIndex(start, j) == start + j

\* the column process_batch reads in row j of the matrix
TableColumn(j, n) == 0

\* the for loop of process_batch from j on; a cell that is not there raises
\* IndexError, a None cell raises TypeError in the division, and the except
\* swallows either: that record gets no result
RECURSIVE BatchLoop(_, _, _, _, _)
BatchLoop(start, n, distances, durations, j) ==
    IF j = n THEN <<>>
    ELSE LET col == TableColumn(j, n)
             one == IF NoCell(distances[j], col) \/ NoCell(durations[j], col) THEN <<>>
                    ELSE IF distances[j][col] = None \/ durations[j][col] = None THEN <<>>
                    ELSE <<[index |-> ResultIndex(start, j),
                            distance_km |-> Over(distances[j][col], 1000),
                            duration_min |-> Over(durations[j][col], 60)]>>
         IN one \o BatchLoop(start, n, distances, durations, j + 1)

\* process_batch(batch) of 1_calculate_distances.py
process_batch_1(start, resp) ==
    LET n == BatchLen(start)
        t == osrm_table(start, n, resp)
    IN IF t[1] # None /\ t[2] # None
       THEN BatchLoop(start, n, t[1], t[2], 0)
       ELSE <<>>

----------------------------------------------------------------------------
(* a_calculate_distances.py *)

\* osrm_route: (distance, duration), or (None, None)
osrm_route(x, resp) ==
    IF resp.raises THEN <<None, None>>
    ELSE IF resp.status_code = 200
         THEN (IF resp.routes = "absent" THEN <<None, None>>
               ELSE IF resp.routes = "empty" THEN <<None, None>>
               ELSE <<Meters(2 * x, 2 * x + 1), Seconds(2 * x, 2 * x + 1)>>)
         ELSE <<None, None>>

\* osrm_table_batch: the list of (distance, duration), or None; the list
\* comprehension sits in the try of the request, so a cell that is not there
\* (IndexError) makes the whole call return None
osrm_table_batch(n, resp) ==
    IF resp.raises THEN None
    ELSE IF resp.status_code = 200
         THEN (IF resp.fields
               THEN LET distances == Rendered(Distances(0, n), 0, n, resp.cells)
                        durations == Rendered(Durations(0, n), 0, n, resp.cells)
                    IN IF \E k \in 0 .. n - 1 :
                             NoCell(distances[k], k + n) \/ NoCell(durations[k], k + n)
                       THEN None
                       ELSE [k \in 1 .. n |->
                                <<distances[k - 1][k - 1 + n], durations[k - 1][k - 1 + n]>>]
               ELSE None)
         ELSE None

\* process_pair
process_pair(x, resp) ==
    LET r == osrm_route(x, resp)
    IN [index |-> x,
        distance_km |-> IF Truthy(r[1]) THEN Over(r[1], 1000) ELSE None,
        duration_min |-> IF Truthy(r[2]) THEN Over(r[2], 60) ELSE None]

\* process_batch(src_coords, dst_coords) of a_calculate_distances.py
process_batch_a(n, resp) ==
    LET b == osrm_table_batch(n, resp)
    IN IF b # None /\ b # <<>>
       THEN [k \in 1 .. n |->
                [index |-> k - 1,
                 distance_km |-> IF Truthy(b[k][1]) THEN Over(b[k][1], 1000) ELSE None,
                 duration_min |-> IF Truthy(b[k][2]) THEN Over(b[k][2], 60) ELSE None]]
       ELSE <<>>

\* len(route[:ExtractLen])
ExtractRows == 0 .. Min(ExtractLen, MaxRecords) - 1

\* sorted(parallel_results, key=lambda x: x['index']): a stable insertion sort
RECURSIVE InsertByIndex(_, _)
InsertByIndex(sorted, r) ==
    IF sorted = <<>> THEN <<r>>
    ELSE IF sorted[Len(sorted)].index <= r.index THEN Append(sorted, r)
    ELSE Append(InsertByIndex(SubSeq(sorted, 1, Len(sorted) - 1), r), sorted[Len(sorted)])

RECURSIVE SortedByIndex(_)
SortedByIndex(seq) ==
    IF seq = <<>> THEN <<>>
    ELSE InsertByIndex(SortedByIndex(SubSeq(seq, 1, Len(seq) - 1)), seq[Len(seq)])

----------------------------------------------------------------------------
(* The thread pool, the merge and the count, common to both scripts *)

Unresolved == [distance_km |-> None, duration_min |-> None]

\* the tasks of the pool now filling or draining
Tasks == DOMAIN futures

AllNew(ts) == [t \in ts |-> "new"]

NoResult(ts) == [t \in ts |-> <<>>]

ColumnsReset_Cached ==
    IF saved = <<>> THEN [x \in Records |-> Unresolved] ELSE saved[Len(saved)]

\* route as the script starts on it: routes_totales.csv read anew, and the two
\* result columns set to None
ColumnsReset == [x \in Records |-> Unresolved]

\* the requests of one run: the batches of script 1, the one table request of script a
Requests == IF prog = "1" THEN BatchStarts ELSE {0}

InitDist ==
    /\ prog \in {"1", "a"}
    /\ leg \in [Records -> {"ok", "zero", "null"}]
    /\ table_ok \in [Requests -> BOOLEAN]
    /\ cells \in {"null", "missing"}
    /\ saved = <<>>
    /\ rerun = FALSE
    /\ route = ColumnsReset
    /\ dpc = IF prog = "1" THEN "submit" ELSE "cmp_batch"
    /\ futures = IF prog = "1" THEN AllNew(BatchStarts) ELSE AllNew(ExtractRows)
    /\ fresult = IF prog = "1" THEN NoResult(BatchStarts) ELSE NoResult(ExtractRows)
    /\ results = <<>>
    /\ m = 0
    /\ num_failures = None
    /\ batch_results = None
    /\ parallel_results = None

\* compare_batch_vs_parallel, up to its call of process_batch
CompareBatch ==
    /\ prog = "a"
    /\ dpc = "cmp_batch"
    /\ \E resp \in TableResponses(table_ok[0]) :
         batch_results' = process_batch_a(Cardinality(ExtractRows), resp)
    /\ dpc' = "cmp_submit"
    /\ UNCHANGED <<prog, leg, table_ok, cells, route, futures, fresult, results, m, num_failures,
                   parallel_results, saved, rerun, rvars>>

\* executor.submit of the next batch (or pair); the submit loop ends after the last
Submit ==
    /\ dpc \in {"submit", "cmp_submit"}
    /\ \E t \in Tasks :
         /\ futures[t] = "new"
         /\ \A u \in Tasks : futures[u] = "new" => t <= u
         /\ futures' = [futures EXCEPT ![t] = "queued"]
         /\ dpc' = IF \A u \in Tasks \ {t} : futures[u] # "new"
                   THEN (IF dpc = "submit" THEN "collect" ELSE "cmp_collect")
                   ELSE dpc
    /\ UNCHANGED <<prog, leg, table_ok, cells, route, fresult, results, m, num_failures,
                   batch_results, parallel_results, saved, rerun, rvars>>

\* a free worker thread takes the oldest queued work item
Start(t) ==
    /\ futures[t] = "queued"
    /\ \A u \in Tasks : futures[u] = "queued" => t <= u
    /\ Cardinality({u \in Tasks : futures[u] = "running"}) < MaxWorkers
    /\ futures' = [futures EXCEPT ![t] = "running"]
    /\ UNCHANGED <<prog, leg, table_ok, cells, route, dpc, fresult, results, m, num_failures,
                   batch_results, parallel_results, saved, rerun, rvars>>

\* the worker runs process_batch (script 1) or process_pair (script a) to its end
Run(t) ==
    /\ futures[t] = "running"
    /\ IF prog = "1"
       THEN \E resp \in TableResponses(table_ok[t]) :
                fresult' = [fresult EXCEPT ![t] = process_batch_1(t, resp)]
       ELSE \E resp \in RouteResponses(t) :
                fresult' = [fresult EXCEPT ![t] = <<process_pair(t, resp)>>]
    /\ futures' = [futures EXCEPT ![t] = "done"]
    /\ UNCHANGED <<prog, leg, table_ok, cells, route, dpc, results, m, num_failures,
                   batch_results, parallel_results, saved, rerun, rvars>>

\* results.extend(future.result()), results.append(future.result())
Extend(list, more) == list \o more

\* as_completed yields a finished future; after the last one the pool is left
Collect(t) ==
    /\ dpc \in {"collect", "cmp_collect"}
    /\ futures[t] = "done"
    /\ futures' = [futures EXCEPT ![t] = "yielded"]
    /\ LET last == \A u \in Tasks \ {t} : futures[u] = "yielded"
           all == Extend(results, fresult[t])
       IN IF ~last
          THEN /\ results' = all
               /\ UNCHANGED <<dpc, parallel_results>>
          ELSE IF dpc = "collect"
          THEN /\ results' = all
               /\ dpc' = "merge"
               /\ UNCHANGED parallel_results
          ELSE /\ parallel_results' = SortedByIndex(all)
               /\ dpc' = "cmp_done"
               /\ results' = all
    /\ UNCHANGED <<prog, leg, table_ok, cells, route, fresult, m, num_failures, batch_results, saved, rerun, rvars>>

\* main of script a: compare_batch_vs_parallel has returned, its value is dropped,
\* and process_in_parallel(route) starts on a new pool
StartMain ==
    /\ dpc = "cmp_done"
    /\ dpc' = "submit"
    /\ futures' = AllNew(Records)
    /\ fresult' = NoResult(Records)
    /\ results' = <<>>
    /\ UNCHANGED <<prog, leg, table_ok, cells, route, m, num_failures, batch_results,
                   parallel_results, saved, rerun, rvars>>

Merge_ByArrival ==
    /\ dpc = "merge"
    /\ m < Len(results)
    /\ m \in DOMAIN route
    /\ route' = [route EXCEPT ![m] =
                    [distance_km |-> results[m + 1].distance_km,
                     duration_min |-> results[m + 1].duration_min]]
    /\ m' = m + 1
    /\ UNCHANGED <<prog, leg, table_ok, cells, dpc, futures, fresult, results, num_failures,
                   batch_results, parallel_results, saved, rerun, rvars>>

\* one iteration of "for result in results": route.at[result['index'], ...] = ...
Merge ==
    /\ dpc = "merge"
    /\ m < Len(results)
    /\ LET result == results[m + 1]
       IN route' = [route EXCEPT ![result.index] =
                       [distance_km |-> result.distance_km,
                        duration_min |-> result.duration_min]]
    /\ m' = m + 1
    /\ UNCHANGED <<prog, leg, table_ok, cells, dpc, futures, fresult, results, num_failures,
                   batch_results, parallel_results, saved, rerun, rvars>>

Count_Abort ==
    /\ dpc = "merge"
    /\ m = Len(results)
    /\ \A x \in Records : route[x].distance_km # None
    /\ num_failures' = 0
    /\ saved' = Append(saved, route)
    /\ dpc' = "done"
    /\ UNCHANGED <<prog, leg, table_ok, cells, route, futures, fresult, results, m,
                   batch_results, parallel_results, rerun, rvars>>

\* num_failures = route[distance].isna().sum(), then route.to_csv(...)
Count ==
    /\ dpc = "merge"
    /\ m = Len(results)
    /\ num_failures' = Cardinality({x \in Records : route[x].distance_km = None})
    /\ saved' = Append(saved, route)
    /\ dpc' = "done"
    /\ UNCHANGED <<prog, leg, table_ok, cells, route, futures, fresult, results, m,
                   batch_results, parallel_results, rerun, rvars>>

\* the script is started again once it has finished, with the backend as it was
\* or unreachable: every request fails
Rerun ==
    /\ dpc = "done"
    /\ ~rerun
    /\ rerun' = TRUE
    /\ \/ UNCHANGED <<leg, table_ok>>
       \/ /\ leg' = [x \in Records |-> "null"]
          /\ table_ok' = [t \in Requests |-> FALSE]
    /\ route' = ColumnsReset
    /\ dpc' = IF prog = "1" THEN "submit" ELSE "cmp_batch"
    /\ futures' = IF prog = "1" THEN AllNew(BatchStarts) ELSE AllNew(ExtractRows)
    /\ fresult' = IF prog = "1" THEN NoResult(BatchStarts) ELSE NoResult(ExtractRows)
    /\ results' = <<>>
    /\ m' = 0
    /\ num_failures' = None
    /\ batch_results' = None
    /\ parallel_results' = None
    /\ UNCHANGED <<prog, cells, saved, rvars>>

\* a step of the running script: of its main thread or of a worker thread
ProgramStep ==
    \/ CompareBatch
    \/ Submit
    \/ \E t \in Tasks : Start(t)
    \/ \E t \in Tasks : Run(t)
    \/ \E t \in Tasks : Collect(t)
    \/ StartMain
    \/ Merge
    \/ Count

NextDist == ProgramStep \/ Rerun

\* no reconciliation script runs
ReconIdle ==
    /\ variant = "-" /\ from_data = <<>> /\ to_data = <<>> /\ routes = <<>>
    /\ i = 0 /\ rpc = "idle" /\ from_data_0 = <<>> /\ to_data_0 = <<>>

DistInit == InitDist /\ ReconIdle

SpecDist == DistInit /\ [][NextDist]_vars

\* The interpreter keeps running the main thread and the worker threads, and
\* requests.get returns (with a response or an exception): a step of the
\* script that can be taken is eventually taken.  Nothing obliges anyone to
\* start the script again.
SpecDistFair == DistInit /\ [][NextDist]_vars /\ WF_vars(ProgramStep)

----------------------------------------------------------------------------
(* Distance resolution: auxiliary definitions of the properties *)

\* a cell of the backend converted to km, to minutes
Km(cell) == IF cell = None THEN None ELSE Over(cell, 1000)

Minutes(cell) == IF cell = None THEN None ELSE Over(cell, 60)

\* the batch of script 1 that holds record x
BatchOf(x) == x - (x % BatchSize)

\* the backend's own answer for the leg of record x: origin x -> destination x
OwnMeters(x) == Meters(2 * x, 2 * x + 1)

OwnSeconds(x) == Seconds(2 * x, 2 * x + 1)

\* the served response of a request, or one of its failures
TableAnswer(t) == CHOOSE resp \in TableResponses(table_ok[t]) : TRUE

RouteAnswer(x) == CHOOSE resp \in RouteResponses(x) : TRUE

\* what one unit of work (a batch of script 1, a pair of script a) returns
UnitOutput(t) ==
    IF prog = "1" THEN process_batch_1(t, TableAnswer(t)) ELSE <<process_pair(t, RouteAnswer(t))>>

\* the results of the units run one after another, in submission order, from unit t on
RECURSIVE SequentialResults(_)
SequentialResults(t) ==
    IF t >= MaxRecords THEN <<>>
    ELSE UnitOutput(t) \o SequentialResults(t + (IF prog = "1" THEN BatchSize ELSE 1))

\* the merge loop over a list of results
RECURSIVE MergeAll(_, _)
MergeAll(rt, rs) ==
    IF rs = <<>> THEN rt
    ELSE MergeAll([rt EXCEPT ![Head(rs).index] =
                      [distance_km |-> Head(rs).distance_km,
                       duration_min |-> Head(rs).duration_min]],
                  Tail(rs))

\* the values the script computes from the matrix row of record x (script 1), or
\* from the route answer of record x (script a); None when it computes none
ComputedFor(x) ==
    IF prog = "1"
    THEN LET t == BatchOf(x)
             n == BatchLen(t)
             j == x - t
             tb == osrm_table(t, n, TableAnswer(t))
         IN IF tb[1] = None \/ tb[2] = None THEN None
            ELSE IF NoCell(tb[1][j], TableColumn(j, n)) \/ NoCell(tb[2][j], TableColumn(j, n))
            THEN None
            ELSE IF tb[1][j][TableColumn(j, n)] = None \/ tb[2][j][TableColumn(j, n)] = None
            THEN None
            ELSE [distance_km |-> Over(tb[1][j][TableColumn(j, n)], 1000),
                  duration_min |-> Over(tb[2][j][TableColumn(j, n)], 60)]
    ELSE LET r == process_pair(x, RouteAnswer(x))
         IN [distance_km |-> r.distance_km, duration_min |-> r.duration_min]

\* result r carries, under the index of a record, the values computed for that record
TaggedWithOwnRecord(r) ==
    /\ r.index \in Records
    /\ ComputedFor(r.index) # None
    /\ r.distance_km = ComputedFor(r.index).distance_km
    /\ r.duration_min = ComputedFor(r.index).duration_min

\* every result a future of the pool holds
PoolResults == {fresult[t][p] : <<t, p>> \in {tp \in Tasks \X (1 .. MaxRecords) : tp[2] <= Len(fresult[tp[1]])}}

\* the backend fails for the pair of record x
BackendFails(x) ==
    \/ leg[x] = "null"
    \/ prog = "1" /\ ~table_ok[BatchOf(x)]

----------------------------------------------------------------------------
(* C4: in every code path that resolves a batch of N pairs through the table
   endpoint, the distance and duration returned for pair j are those of
   distances[j][j + N] and durations[j][j + N] (converted by that path). *)
C4_DiagonalExtraction ==
    /\ prog = "1" =>
         \A t \in Tasks : \A p \in 1 .. Len(fresult[t]) :
            LET r == fresult[t][p]
                n == BatchLen(t)
                j == r.index - t
            IN /\ r.distance_km = Km(Distances(t, n)[j][j + n])
               /\ r.duration_min = Minutes(Durations(t, n)[j][j + n])
    /\ (prog = "a" /\ batch_results # None) =>
         \A p \in 1 .. Len(batch_results) :
            LET r == batch_results[p]
                n == Cardinality(ExtractRows)
                j == r.index
                d == Distances(0, n)[j][j + n]
                u == Durations(0, n)[j][j + n]
            IN /\ r.distance_km = (IF Truthy(d) THEN Km(d) ELSE None)
               /\ r.duration_min = (IF Truthy(u) THEN Minutes(u) ELSE None)

(* C4 on a_calculate_distances.py alone: osrm_table_batch reads the diagonal. *)
C4_DiagonalOfScriptA ==
    (prog = "a" /\ batch_results # None) =>
         \A p \in 1 .. Len(batch_results) :
            LET r == batch_results[p]
                n == Cardinality(ExtractRows)
                j == r.index
                d == Distances(0, n)[j][j + n]
                u == Durations(0, n)[j][j + n]
            IN /\ r.distance_km = (IF Truthy(d) THEN Km(d) ELSE None)
               /\ r.duration_min = (IF Truthy(u) THEN Minutes(u) ELSE None)

(* C8: when the resolution is over, with F the number of pairs the backend
   fails for, exactly MaxRecords - F records have a distance, the failure count
   is F, and every record the backend did not fail for holds the backend's
   distance and duration of its own pair. *)
C8_PartialFailureAccounting ==
    dpc = "done" =>
        LET F == Cardinality({x \in Records : BackendFails(x)})
        IN /\ Cardinality({x \in Records : route[x].distance_km # None}) = MaxRecords - F
           /\ num_failures = F
           /\ \A x \in Records :
                ~BackendFails(x) =>
                    /\ route[x].distance_km = Km(OwnMeters(x))
                    /\ route[x].duration_min = Minutes(OwnSeconds(x))

(* C8, the part the scripts keep: the failure count is the number of records
   left without a distance. *)
C8_CountIsNullCount ==
    dpc = "done" =>
        num_failures = MaxRecords - Cardinality({x \in Records : route[x].distance_km # None})

(* C9: every result the pool yields carries the index of a record of the full
   input together with the values computed for that very record, and the merge
   leaves every record either unresolved or with the values computed for it. *)
C9_TaggedWithOriginalPosition ==
    /\ \A r \in PoolResults : TaggedWithOwnRecord(r)
    /\ \A p \in 1 .. Len(results) : TaggedWithOwnRecord(results[p])
    /\ (prog = "a" /\ batch_results # None) =>
         \A p \in 1 .. Len(batch_results) :
            /\ batch_results[p].index = p - 1
            /\ batch_results[p].index \in ExtractRows
    /\ \A x \in Records :
         \/ route[x] = Unresolved
         \/ /\ ComputedFor(x) # None
            /\ route[x] = ComputedFor(x)

\* script 1 is done and the record of the second batch holds its own values
C9_Witness ==
    /\ prog = "1"
    /\ dpc = "done"
    /\ \E x \in Records : BatchOf(x) # 0 /\ route[x] # Unresolved
    /\ route[0] # Unresolved

(* C10: when the resolution is over, every record holds the distance and
   duration that running the units of work one after another, in submission
   order, and merging their results would give it, whatever the order in which
   the workers started, finished and were collected. *)
C10_SchedulingIndependent ==
    dpc = "done" => route = MergeAll([x \in Records |-> Unresolved], SequentialResults(0))

\* the futures were collected out of submission order and the merge wrote them
C10_Witness ==
    /\ dpc = "done"
    /\ Len(results) >= 2
    /\ results[1].index > results[Len(results)].index
    /\ \A p \in 1 .. Len(results) : route[results[p].index].distance_km # None

\* the worker of task t has returned
Returned(t) == futures[t] \in {"done", "yielded"}

\* compare_batch_vs_parallel has called process_batch
BatchCalled == prog = "a" /\ dpc # "cmp_batch"

\* some result of the list carries index x
HasIndex(list, x) == \E p \in 1 .. Len(list) : list[p].index = x

\* the backend is unreachable: every request fails
Unreachable ==
    /\ \A x \in Records : leg[x] = "null"
    /\ \A t \in Requests : ~table_ok[t]

\* every record of table rt has a distance and a duration
FullyResolved(rt) ==
    \A x \in Records : rt[x].distance_km # None /\ rt[x].duration_min # None

(* C11: a batch whose table request failed entirely yields one outcome per
   record of the batch, each carrying the index of its record. *)
C11_BatchFailureOutcomes ==
    /\ prog = "1" =>
         \A t \in Tasks :
            (Returned(t) /\ ~table_ok[t]) =>
                \A j \in 0 .. BatchLen(t) - 1 : HasIndex(fresult[t], ResultIndex(t, j))
    /\ (BatchCalled /\ ~table_ok[0]) =>
         \A x \in ExtractRows : HasIndex(batch_results, x)

(* C11, the part the scripts keep: a batch whose table request failed entirely
   returns normally, with an empty list. *)
C11_FailedBatchReturnsEmpty ==
    /\ prog = "1" =>
         \A t \in Tasks : (Returned(t) /\ ~table_ok[t]) => fresult[t] = <<>>
    /\ (BatchCalled /\ ~table_ok[0]) => batch_results = <<>>

(* C12: whatever the backend answers, a run that has not finished eventually
   finishes: it reaches its end with the failure count reported as the number
   of records left null and the table saved. *)
C12_AlwaysCompletes ==
    (dpc # "done") ~>
        ( /\ dpc = "done"
          /\ num_failures = Cardinality({x \in Records : route[x].distance_km = None})
          /\ saved # <<>>
          /\ saved[Len(saved)] = route )

\* script a finished a run in which some route requests failed and some succeeded
C12_Witness ==
    /\ prog = "a"
    /\ dpc = "done"
    /\ \E x \in Records : leg[x] = "null" /\ route[x].distance_km = None
    /\ \E x \in Records : leg[x] = "ok" /\ route[x].distance_km # None
    /\ num_failures >= 1
    /\ num_failures < MaxRecords

(* C13: for every length M and batch size B the batch starts are the multiples
   k * B below M and batch k is the slice [k * B, min(k * B + B, M)): the
   slices are pairwise disjoint, cover every position, and only the last one
   may hold fewer than B positions; the batches script 1 submits are those of
   its route and batch size, and the indexes of a batch are its slice. *)
C13_BatchPartition ==
    /\ \A M \in 0 .. MaxRecords + BatchSize : \A B \in 1 .. BatchSize + 1 :
         LET starts == RangeStep(M, B)
         IN /\ starts = {k * B : k \in {q \in 0 .. M : q * B < M}}
            /\ \A k \in starts :
                 IlocSlice(k, M, B) = {x \in 0 .. M - 1 : k <= x /\ x < Min(k + B, M)}
            /\ \A k1 \in starts : \A k2 \in starts :
                 k1 # k2 => IlocSlice(k1, M, B) \cap IlocSlice(k2, M, B) = {}
            /\ \A x \in 0 .. M - 1 :
                 Cardinality({k \in starts : x \in IlocSlice(k, M, B)}) = 1
            /\ \A k \in starts :
                 Cardinality(IlocSlice(k, M, B)) # B => \A k2 \in starts : k2 <= k
    /\ prog = "1" =>
         /\ Tasks = RangeStep(MaxRecords, BatchSize)
         /\ \A t \in Tasks :
              {ResultIndex(t, j) : j \in 0 .. BatchLen(t) - 1}
                 = IlocSlice(t, MaxRecords, BatchSize)

\* script 1 has collected the results of a full batch and of the truncated last one
C13_Witness ==
    /\ prog = "1"
    /\ dpc = "merge"
    /\ HasIndex(results, BatchSize - 1)
    /\ HasIndex(results, MaxRecords - 1)
    /\ BatchLen(BatchOf(MaxRecords - 1)) < BatchSize

(* C15 as claimed: when the script has been run again on a record set the
   earlier run had fully resolved, and the backend is unreachable, the saved
   table still holds the values of the earlier run. *)
C15_RerunKeepsValues ==
    (rerun /\ dpc = "done" /\ Len(saved) = 2 /\ FullyResolved(saved[1]) /\ Unreachable)
    => saved[2] = saved[1]

(* C15: the scripts always query again: a run starts from the two columns set
   to None, so when the script has been run again on a record set the earlier
   run had fully resolved, and the backend is unreachable, every record ends
   null, the failure count is the number of records, and the saved table holds
   no distance. *)
C15_RerunRequeries ==
    (rerun /\ dpc = "done" /\ Len(saved) = 2 /\ FullyResolved(saved[1]) /\ Unreachable)
    => /\ route = [x \in Records |-> Unresolved]
       /\ saved[2] = [x \in Records |-> Unresolved]
       /\ num_failures = MaxRecords

C15_Witness ==
    /\ rerun
    /\ dpc = "done"
    /\ Len(saved) = 2
    /\ FullyResolved(saved[1])
    /\ Unreachable
    /\ \A x \in Records : saved[2][x].distance_km = None

(* C16: in a batch whose table request was served, a record whose own cell
   cannot be extracted gets no distance, and every other record of the batch
   whose leg the backend answers with a distance still gets one. *)
C16_MalformedRecordDoesNotAbort ==
    /\ prog = "1" =>
         \A t \in Tasks :
            (Returned(t) /\ table_ok[t]) =>
                \A j \in 0 .. BatchLen(t) - 1 :
                    HasIndex(fresult[t], t + j) <=> leg[t + j] # "null"
    /\ (BatchCalled /\ table_ok[0]) =>
         \A x \in ExtractRows :
            /\ leg[x] = "null" =>
                 \A p \in 1 .. Len(batch_results) :
                    batch_results[p].index = x => batch_results[p].distance_km = None
            /\ leg[x] = "ok" =>
                 \E p \in 1 .. Len(batch_results) :
                    batch_results[p].index = x /\ batch_results[p].distance_km # None

(* C16, the part 1_calculate_distances.py keeps: the try inside the loop of
   process_batch skips a record whose cell read (column 0 of its row) fails and
   goes on with the next record, so a served batch returns a result for
   exactly the records whose read cell holds a value. *)
C16_PerRecordTryOfScript1 ==
    prog = "1" =>
         \A t \in Tasks :
            (Returned(t) /\ table_ok[t]) =>
                \A j \in 0 .. BatchLen(t) - 1 :
                    HasIndex(fresult[t], t + j) <=> ComputedFor(t + j) # None

(* C18: no two results collected from the workers carry the same index, and
   every index they carry is the index of a record of the input. *)
C18_WrittenAtMostOnce ==
    /\ \A p \in 1 .. Len(results) : results[p].index \in Records
    /\ \A p \in 1 .. Len(results) : \A q \in 1 .. Len(results) :
         p # q => results[p].index # results[q].index

\* script 1 merged one result per record, two of them of the same batch
C18_Witness ==
    /\ prog = "1"
    /\ dpc = "done"
    /\ Len(results) = MaxRecords
    /\ \E p \in 1 .. Len(results) : \E q \in 1 .. Len(results) :
         p # q /\ BatchOf(results[p].index) = BatchOf(results[q].index)

(* C19: when compare_batch_vs_parallel has resolved the extract both ways and
   the backend served the table request, the batch results and the sorted
   parallel results hold, position by position, the same index, distance_km
   and duration_min. *)
C19_BatchAndPairAgree ==
    (prog = "a" /\ dpc = "cmp_done" /\ table_ok[0]) =>
        /\ Len(batch_results) = Len(parallel_results)
        /\ \A p \in 1 .. Len(parallel_results) :
             /\ batch_results[p].index = parallel_results[p].index
             /\ batch_results[p].distance_km = parallel_results[p].distance_km
             /\ batch_results[p].duration_min = parallel_results[p].duration_min

(* C19, the part the script keeps: whenever process_batch returns results at
   all, they agree with the sorted parallel results. *)
C19_AgreeWhenBatchYields ==
    (prog = "a" /\ dpc = "cmp_done" /\ batch_results # <<>>) =>
        /\ Len(batch_results) = Len(parallel_results)
        /\ \A p \in 1 .. Len(parallel_results) :
             /\ batch_results[p].index = parallel_results[p].index
             /\ batch_results[p].distance_km = parallel_results[p].distance_km
             /\ batch_results[p].duration_min = parallel_results[p].duration_min

\* the table request that carries record x is served
Served(x) == IF prog = "1" THEN table_ok[BatchOf(x)] ELSE TRUE

(* C22: when a run is over, every record for whose pair the backend answered a
   distance of 0 meters and a duration of 0 seconds holds distance 0 and
   duration 0, not null, and the failure count does not exceed the number of
   the other records. *)
C22_ZeroIsResolved ==
    dpc = "done" =>
        /\ \A x \in Records :
             (leg[x] = "zero" /\ Served(x)) =>
                 /\ route[x].distance_km = Div(0, 1)
                 /\ route[x].duration_min = Div(0, 1)
        /\ num_failures <= Cardinality({x \in Records : ~(leg[x] = "zero" /\ Served(x))})

(* C22, the part 1_calculate_distances.py keeps: a cell of value 0 that
   process_batch reads is stored as 0 (record 0 reads the 0 of its origin to
   itself). *)
C22_ZeroKeptByScript1 ==
    (prog = "1" /\ dpc = "done" /\ table_ok[0] /\ ~(leg[0] = "null" /\ cells = "missing"))
    => /\ route[0].distance_km = Div(0, 1)
       /\ route[0].duration_min = Div(0, 1)

----------------------------------------------------------------------------
(* Reconciliation: auxiliary definitions of the properties *)

Commodities == {"L", "F"}

StockCol(com) == IF com = "L" THEN "PL_Tan" ELSE "PF_Tan"

DemandCol(com) == IF com = "L" THEN "CL_Tan" ELSE "CF_Tan"

PctCol(com) == IF com = "L" THEN "cptL" ELSE "cptF"

\* the triple the loop is about to process names a producer and a consumer of the record sets
TripleKnown ==
    /\ rpc = "loop" /\ i < LenRoutes
    /\ routes[i].id_from \in DOMAIN from_data
    /\ routes[i].id_to \in DOMAIN to_data

\* the triple the loop is about to process names an id absent from the record sets
TripleUnknown ==
    /\ rpc = "loop" /\ i < LenRoutes
    /\ \/ routes[i].id_from \notin DOMAIN from_data
       \/ routes[i].id_to \notin DOMAIN to_data

\* the step of the claim on one commodity: S, D before, the primed values after
StepAsSpecified(p, c, com) ==
    LET S == from_data[p][StockCol(com)]
        D == to_data[c][DemandCol(com)]
        diff == S - D
    IN IF diff > 0
       THEN /\ from_data'[p][StockCol(com)] = diff
            /\ to_data'[c][DemandCol(com)] = 0
       ELSE /\ from_data'[p][StockCol(com)] = 0
            /\ to_data'[c][DemandCol(com)] = Abs(diff)

\* consumer c is the consumer of a triple already processed
Referenced(c) == \E k \in 0 .. i - 1 : routes[k].id_to = c

----------------------------------------------------------------------------
(* C1: every step that processes a triple (producer, consumer) leaves, for each
   commodity, with S the producer's stock, D the consumer's remaining demand
   and diff = S - D before the step: stock diff and demand 0 when diff > 0,
   stock 0 and demand |diff| otherwise. *)
C1_ReconciliationStep ==
    [][i' = i + 1 =>
         \A com \in Commodities :
             StepAsSpecified(routes[i].id_from, routes[i].id_to, com)]_vars

(* C1 on 2_process_results.py alone: there every known triple is processed and
   its step is the specified one. *)
C1_StepOfScript2 ==
    [][(variant = "2" /\ TripleKnown) =>
         /\ i' = i + 1
         /\ \A com \in Commodities :
              StepAsSpecified(routes[i].id_from, routes[i].id_to, com)]_vars

(* C2: in 2_process_results.py, for a producer P loaded with stock 10 and two
   consumers c1, c2 each loaded with demand 7 of a commodity, after the triples
   (P, c1), (P, c2) in that order P's stock is 3 after the first triple, and
   after the second c1's demand is 0, c2's demand is 4 and P's stock is 0;
   c1 and c2 range over both orders. *)
C2_OrderSensitive ==
    \A P \in FromIds, c1 \in ToIds, c2 \in ToIds, com \in Commodities :
        ( /\ variant = "2"
          /\ c1 # c2
          /\ LenRoutes >= 2
          /\ routes[0].id_from = P /\ routes[0].id_to = c1
          /\ routes[1].id_from = P /\ routes[1].id_to = c2
          /\ from_data_0[P][StockCol(com)] = 10
          /\ to_data_0[c1][DemandCol(com)] = 7
          /\ to_data_0[c2][DemandCol(com)] = 7 )
        => /\ i = 1 => /\ from_data[P][StockCol(com)] = 3
                       /\ to_data[c1][DemandCol(com)] = 0
                       /\ to_data[c2][DemandCol(com)] = 7
           /\ i = 2 => /\ from_data[P][StockCol(com)] = 0
                       /\ to_data[c1][DemandCol(com)] = 0
                       /\ to_data[c2][DemandCol(com)] = 4

C2_Witness ==
    /\ variant = "2" /\ i = 2
    /\ routes[0].id_from = "1" /\ routes[0].id_to = "C2"
    /\ routes[1].id_from = "1" /\ routes[1].id_to = "C1"
    /\ from_data_0["1"].PL_Tan = 10
    /\ to_data_0["C1"].CL_Tan = 7 /\ to_data_0["C2"].CL_Tan = 7
    /\ to_data["C2"].CL_Tan = 0 /\ to_data["C1"].CL_Tan = 4

(* C3: in 2_process_results.py (b_process_results.py computes it with the same
   lines), for every consumer referenced by a processed triple and every
   commodity whose demand as loaded is non-zero, the stored completion
   percentage is (1 - remaining demand / demand as loaded) * 100. *)
C3_PctOfOriginalDemand ==
    \A c \in ToIds, com \in Commodities :
        (variant = "2" /\ Referenced(c) /\ to_data_0[c][DemandCol(com)] # 0)
        => to_data[c][PctCol(com)] =
             Times(OneMinus(Div(to_data[c][DemandCol(com)], to_data_0[c][DemandCol(com)])), 100)

(* C5: no producer's stock and no consumer's remaining demand is ever negative. *)
C5_NeverNegative ==
    /\ \A p \in DOMAIN from_data : from_data[p].PL_Tan >= 0 /\ from_data[p].PF_Tan >= 0
    /\ \A c \in DOMAIN to_data : to_data[c].CL_Tan >= 0 /\ to_data[c].CF_Tan >= 0

\* a triple whose demand exceeded the stock has been processed: stock clamped to 0
C5_Witness ==
    /\ i >= 1
    /\ \E com \in Commodities :
         LET p == routes[i - 1].id_from
             c == routes[i - 1].id_to
         IN /\ variant = "2"
            /\ from_data[p][StockCol(com)] = 0
            /\ to_data[c][DemandCol(com)] > 0
            /\ from_data_0[p][StockCol(com)] > 0

(* C6: in 2_process_results.py (b_process_results.py computes it with the same
   lines), a triple processed for a consumer whose demand of a commodity is 0
   does not raise, and the completion percentage it stores for that commodity
   is neither 100 nor 0 nor NaN nor inf. *)
C6_ZeroDemandGuard ==
    [][\A com \in Commodities :
         (variant = "2" /\ TripleKnown /\ to_data[routes[i].id_to][DemandCol(com)] = 0)
         => /\ rpc' = "loop"
            /\ i' = i + 1
            /\ LET v == to_data'[routes[i].id_to][PctCol(com)]
               IN /\ v # Div(100, 1)
                  /\ v # Div(0, 1)
                  /\ ~(v # None /\ v[2] = 0)]_vars

(* C7: a triple whose producer id or consumer id is in no record set ends in an
   error raised at that triple (the loop index stays on it), and changes no
   stock, no demand, no completion percentage and no ledger row. *)
C7_UnknownEntity ==
    [][TripleUnknown =>
         /\ rpc' = "raised"
         /\ i' = i
         /\ from_data' = from_data
         /\ to_data' = to_data
         /\ routes' = routes]_vars

C7_Witness ==
    /\ rpc = "raised"
    /\ i = 1
    /\ \/ routes[i].id_from \notin DOMAIN from_data
       \/ routes[i].id_to \notin DOMAIN to_data
    /\ to_data # to_data_0

(* C14: in 2_process_results.py, when the step processes the first triple of a
   consumer whose demand D of a commodity is positive, with S the stock of the
   triple's producer before the step, the percentage the step stores is 100
   when S >= D and S / D * 100 otherwise, and the demand it leaves is 0 when
   S >= D and D - S otherwise. *)
C14_SingleLegFulfillment ==
    [][\A com \in Commodities :
         (variant = "2" /\ i' = i + 1) =>
            LET p == routes[i].id_from
                c == routes[i].id_to
                S == from_data[p][StockCol(com)]
                D == to_data[c][DemandCol(com)]
            IN (~Referenced(c) /\ D > 0) =>
                 /\ to_data'[c][PctCol(com)] =
                       (IF S >= D THEN Div(100, 1) ELSE Times(Div(S, D), 100))
                 /\ to_data'[c][DemandCol(com)] = (IF S >= D THEN 0 ELSE D - S)]_vars

\* one step served stock 10 against demand 7 (100) and stock 4 against demand 10 (40)
C14_Witness ==
    /\ variant = "2" /\ i = 1
    /\ LET p == routes[0].id_from
           c == routes[0].id_to
       IN /\ p \in FromIds /\ c \in ToIds
          /\ from_data_0[p].PL_Tan = 10 /\ to_data_0[c].CL_Tan = 7
          /\ from_data_0[p].PF_Tan = 4 /\ to_data_0[c].CF_Tan = 10
          /\ to_data[c].cptL = Div(100, 1) /\ to_data[c].CL_Tan = 0
          /\ to_data[c].cptF = Div(40, 1) /\ to_data[c].CF_Tan = 6

(* C17: no step of the pass changes the resolved distance or duration of any
   ledger row, and after each step the km_parcourus of every row processed so
   far is that row's resolved distance, null when the distance is null. *)
C17_KmPassThrough ==
    [][/\ \A r \in DOMAIN routes :
            /\ routes'[r].distance_km = routes[r].distance_km
            /\ routes'[r].duration_min = routes[r].duration_min
       /\ \A r \in 0 .. i' - 1 : routes'[r].km_parcourus = routes'[r].distance_km]_vars

\* the pass returned over a row with a resolved distance and a row with a null one
C17_Witness ==
    /\ rpc = "returned"
    /\ i = LenRoutes
    /\ \E r \in DOMAIN routes :
         routes[r].distance_km = None /\ routes[r].km_parcourus = None
    /\ \E r \in DOMAIN routes :
         routes[r].distance_km # None /\ routes[r].km_parcourus = routes[r].distance_km

(* C20: the step that processes the triple (p, c) reads each of the two stocks
   from the record of producer p, the record it writes them to, and leaves
   every producer other than p and every consumer other than c unchanged. *)
C20_ReadAndWriteSameRecord ==
    [][i' = i + 1 =>
         LET p == routes[i].id_from
             c == routes[i].id_to
         IN /\ LegReadKey(p) = p
            /\ FruReadKey(p) = p
            /\ \A q \in DOMAIN from_data \ {p} : from_data'[q] = from_data[q]
            /\ \A d \in DOMAIN to_data \ {c} : to_data'[d] = to_data[d]]_vars

(* C20 on 2_process_results.py alone. *)
C20_FrameOfScript2 ==
    [][(variant = "2" /\ i' = i + 1) =>
         LET p == routes[i].id_from
             c == routes[i].id_to
         IN /\ LegReadKey(p) = p
            /\ FruReadKey(p) = p
            /\ \A q \in DOMAIN from_data \ {p} : from_data'[q] = from_data[q]
            /\ \A d \in DOMAIN to_data \ {c} : to_data'[d] = to_data[d]]_vars

\* the sum of f over the set S
RECURSIVE SumOver(_, _)
SumOver(f, S) ==
    IF S = {} THEN 0
    ELSE LET x == CHOOSE y \in S : TRUE IN f[x] + SumOver(f, S \ {x})

\* the stock of commodity com taken from the producers of table fd since loading
StockRemoved(fd, com) ==
    SumOver([p \in FromIds |-> from_data_0[p][StockCol(com)] - fd[p][StockCol(com)]], FromIds)

\* the demand of commodity com taken from the consumers of table td since loading
DemandRemoved(td, com) ==
    SumOver([c \in ToIds |-> to_data_0[c][DemandCol(com)] - td[c][DemandCol(com)]], ToIds)

(* C21: every step that processes a triple (p, c) moves, for each commodity,
   exactly min(S, D) with S the stock of p and D the remaining demand of c
   before the step: the stock and the demand both decrease by that amount, so
   neither increases and one of them is 0 afterwards; and after every step the
   stock taken from all producers since loading equals the demand taken from
   all consumers. *)
C21_Conservation ==
    [][i' = i + 1 =>
         \A com \in Commodities :
            LET p == routes[i].id_from
                c == routes[i].id_to
                S == from_data[p][StockCol(com)]
                D == to_data[c][DemandCol(com)]
                S2 == from_data'[p][StockCol(com)]
                D2 == to_data'[c][DemandCol(com)]
            IN /\ S - S2 = Min(S, D)
               /\ D - D2 = Min(S, D)
               /\ S2 <= S /\ D2 <= D
               /\ S2 = 0 \/ D2 = 0
               /\ StockRemoved(from_data', com) = DemandRemoved(to_data', com)]_vars

(* C21 on 2_process_results.py alone. *)
C21_ConservationOfScript2 ==
    [][(variant = "2" /\ i' = i + 1) =>
         \A com \in Commodities :
            LET p == routes[i].id_from
                c == routes[i].id_to
                S == from_data[p][StockCol(com)]
                D == to_data[c][DemandCol(com)]
                S2 == from_data'[p][StockCol(com)]
                D2 == to_data'[c][DemandCol(com)]
            IN /\ S - S2 = Min(S, D)
               /\ D - D2 = Min(S, D)
               /\ S2 <= S /\ D2 <= D
               /\ S2 = 0 \/ D2 = 0
               /\ StockRemoved(from_data', com) = DemandRemoved(to_data', com)]_vars

====
